---- MODULE Spec2Model ----
(***************************************************************************)
(* Model of run() of cmd/mtlognorm.cpp: multi-tissue log-domain intensity  *)
(* normalisation.  The state is the set of local objects of run() (masks,  *)
(* tissue stack, bias field, scale factors, loop counters), one action per *)
(* block of the function.                                                  *)
(*                                                                         *)
(* Numbers.  float/double values are fixed-point integers in units of      *)
(* 1/Unit, with the three non-finite values Inf, -Inf and NaN kept apart.  *)
(* std::log and std::exp are computed by a monotone piecewise-linear       *)
(* fixed-point approximation (exact at the powers of two).                 *)
(*                                                                         *)
(* External collaborators.  The Eigen least-squares solves (lines 249 and  *)
(* 344) are not code of this repository: their results are inputs, drawn   *)
(* from SolveValues and BiasWeightChoices.  The position an image is left  *)
(* at when a Loop ends belongs to the image library: LoopEndPositions.     *)
(***************************************************************************)
EXTENDS Integers, Sequences, FiniteSets

\* ---------------------------------------------------------------- bounds
NVox == 3
NTissue == 2
MaxIterBound == 3
Unit == 1000

n_basis_vecs == 20

Voxels == 1..NVox
Tissues == 1..NTissue

\* ------------------------------------------------- float / double values
Inf == Unit * 100000
NaN == 2 * Inf
Uninit == 3 * Inf

IsFinite(x) == x # NaN /\ x # Inf /\ x # -Inf

Sat(x) == IF x >= Inf THEN Inf ELSE IF x <= -Inf THEN -Inf ELSE x

Abs(x) == IF x < 0 THEN -x ELSE x

Sign(x) == IF x < 0 THEN -1 ELSE IF x > 0 THEN 1 ELSE 0

FNeg(a) == IF a = NaN THEN NaN ELSE -a

FAbs(a) == IF a = NaN THEN NaN ELSE Abs(a)

FLess(a, b) == a # NaN /\ b # NaN /\ a < b

FAdd(a, b) ==
  IF a = NaN \/ b = NaN THEN NaN
  ELSE IF ~IsFinite(a) /\ ~IsFinite(b) THEN (IF a = b THEN a ELSE NaN)
  ELSE IF ~IsFinite(a) THEN a
  ELSE IF ~IsFinite(b) THEN b
  ELSE Sat(a + b)

FSub(a, b) == FAdd(a, FNeg(b))

\* |a| * |b| / Unit and |a| * Unit / |b| for finite operands, saturating
\* to Inf, with no intermediate product beyond the 32-bit integers
MulAbs(x, y) ==
  IF x = 0 \/ y = 0 THEN 0
  ELSE IF x <= 2000000000 \div y THEN Sat((x * y) \div Unit)
  ELSE IF x \div Unit = 0 \/ x \div Unit <= 2000000000 \div y
       THEN Sat((x \div Unit) * y)
  ELSE Inf

DivAbs(x, y) ==
  IF x <= 2000000000 \div Unit THEN Sat((x * Unit) \div y)
  ELSE IF x \div y >= Inf \div Unit THEN Inf
  ELSE (x \div y) * Unit

FMul(a, b) ==
  IF a = NaN \/ b = NaN THEN NaN
  ELSE IF ~IsFinite(a) \/ ~IsFinite(b)
       THEN (IF a = 0 \/ b = 0 THEN NaN ELSE Sign(a) * Sign(b) * Inf)
  ELSE Sign(a) * Sign(b) * MulAbs(Abs(a), Abs(b))

FDiv(a, b) ==
  IF a = NaN \/ b = NaN THEN NaN
  ELSE IF ~IsFinite(a) /\ ~IsFinite(b) THEN NaN
  ELSE IF ~IsFinite(a) THEN (IF b < 0 THEN -a ELSE a)
  ELSE IF ~IsFinite(b) THEN 0
  ELSE IF b = 0 THEN (IF a = 0 THEN NaN ELSE Sign(a) * Inf)
  ELSE Sign(a) * Sign(b) * DivAbs(Abs(a), Abs(b))

\* x / n for an integer count n > 0
FDivInt(a, n) == IF IsFinite(a) THEN Sign(a) * (Abs(a) \div n) ELSE a

FMax(a, b) == IF FLess(a, b) THEN b ELSE a

Ln2 == (693147 * Unit) \div 1000000

RECURSIVE Log2Fix(_)
Log2Fix(x) ==
  IF x >= 2 * Unit THEN Unit + Log2Fix(x \div 2)
  ELSE IF x < Unit THEN Log2Fix(2 * x) - Unit
  ELSE x - Unit

RECURSIVE Exp2Fix(_)
Exp2Fix(z) ==
  IF z >= Unit THEN 2 * Exp2Fix(z - Unit)
  ELSE IF z < 0 THEN Exp2Fix(z + Unit) \div 2
  ELSE Unit + z

FLog(x) ==
  IF x = NaN \/ x < 0 THEN NaN
  ELSE IF x = 0 THEN -Inf
  ELSE IF x = Inf THEN Inf
  ELSE LET l == Log2Fix(x) IN Sign(l) * ((Abs(l) * Ln2) \div Unit)

FExp(y) ==
  IF y = NaN THEN NaN
  ELSE IF y >= 11 * Unit THEN Inf
  ELSE IF y <= -(11 * Unit) THEN 0
  ELSE Exp2Fix(Sign(y) * ((Abs(y) * Unit) \div Ln2))

\* sum of f[k] over k in 1..n, in float arithmetic, accumulated in order
RECURSIVE FSum(_, _)
FSum(f, n) == IF n = 0 THEN 0 ELSE FAdd(FSum(f, n - 1), f[n])

\* ------------------------------------------------------------ the inputs
\* A voxel of the input data: outside the input mask ("out"), inside with
\* every tissue at 1.0 ("uni"), inside with a negative first tissue and 2.0
\* elsewhere ("neg"), inside with every tissue at 0 ("zero").
VoxelKinds == {"out", "uni", "neg", "zero"}

KindMask(k) == k # "out"

KindTissue(k, j) ==
  CASE k = "out" -> Unit
    [] k = "uni" -> Unit
    [] k = "neg" -> (IF j = 1 THEN -Unit ELSE 2 * Unit)
    [] OTHER -> 0

\* The input volumes: the first voxel, where a Loop may leave its images,
\* is of any kind; the others follow in the order out, zero, uni, neg.
KindRank(k) ==
  CASE k = "out" -> 1 [] k = "zero" -> 2 [] k = "uni" -> 3 [] OTHER -> 4

InputVolumes ==
  {kinds \in [Voxels -> VoxelKinds] :
     \A v \in Voxels, w \in Voxels :
       (1 < v /\ v < w) => KindRank(kinds[v]) <= KindRank(kinds[w])}

\* argument.size(): too few, odd, and one input/output pair per tissue
ArgCounts == {2, 2 * NTissue - 1, 2 * NTissue}

\* -value: the default 0.282094, and a rejected one
DEFAULT_NORM_VALUE == (282094 * Unit) \div 1000000

NormValues == {0, DEFAULT_NORM_VALUE}

\* -maxiter
MaxIterValues == 0..MaxIterBound

\* results of X.colPivHouseholderQr().solve(y): every tissue positive, one
\* tissue at zero, every tissue negative
SolveValues == {Unit + 1, 2 * Unit}

SolveResults ==
  [Tissues -> SolveValues]
    \cup {[j \in Tissues |-> IF j = k THEN 0 ELSE Unit] : k \in Tissues}
    \cup {[j \in Tissues |-> -Unit]}

\* results of bias_field_basis.colPivHouseholderQr().solve(y)
ZeroWeights == [k \in 1..n_basis_vecs |-> 0]

BiasWeightChoices == {ZeroWeights, [ZeroWeights EXCEPT ![2] = Unit \div 2]}

\* the options read at lines 361-376: -independent, -bias, -check
OutputOptionChoices ==
  { [independent |-> FALSE, bias |-> FALSE, check |-> FALSE],
    [independent |-> TRUE, bias |-> TRUE, check |-> FALSE],
    [independent |-> FALSE, bias |-> FALSE, check |-> TRUE] }

\* what a read of memory no one wrote can yield
GarbageValues == {0, 2 * Unit}

\* where an image stands when a Loop over it has ended: on its first voxel
\* (indices reset), or past the last one (0: no voxel of the grid)
LoopEndPositions == {0, 1}

\* ------------------------------------------------------------- the state
VARIABLES
  pc,                      \* position in run()
  loop_end,                \* where this build's Loop leaves an image
  err,                     \* the Exception thrown, if any
  input_images,            \* [Tissues -> [Voxels -> float]]
  orig_mask,               \* the -mask image
  initial_mask, mask,      \* scratch masks
  summed,                  \* raw tissue sum
  combined_tissue,         \* zero-clamped tissue stack
  num_voxels,
  max_iter,
  bias_field_weights, bias_field_log, bias_field_image,
  scale_factors, previous_scale_factors,
  iter, norm_iter, norm_converged,
  summed_log,
  index, rows,             \* the last matrix fill: row counter, voxel of each row
  outputs,                 \* images created on disk
  output_images, tags,     \* their samples and normalisation_scale_factor tags
  independent,             \* the -independent option as read at line 376
  solved,                  \* history: the last result of the scale-factor solve
  loop_factors,            \* history: scale_factors when the outer loop ended
  n_passes, n_bias_fits,   \* history: outer bodies entered, bias fits done
  n_reject,                \* history: outlier rejections in this outer pass
  prev_end                 \* history: working mask and num_voxels when the
                           \* previous inner iteration of this pass ended

vars == << pc, loop_end, err, input_images, orig_mask, initial_mask, mask, summed,
           combined_tissue, num_voxels, max_iter, bias_field_weights,
           bias_field_log, bias_field_image, scale_factors,
           previous_scale_factors, iter, norm_iter, norm_converged,
           summed_log, index, rows, outputs, output_images, tags,
           independent, solved, loop_factors, n_passes, n_bias_fits,
           n_reject, prev_end >>

NoError == [kind |-> "none", tissue |-> 0, value |-> 0]

Error(k) == [kind |-> k, tissue |-> 0, value |-> 0]

AllFalse == [v \in Voxels |-> FALSE]

ZeroImage == [v \in Voxels |-> 0]

UninitVector == [j \in Tissues |-> Uninit]

Count(m) == Cardinality({v \in Voxels : m[v]})

NoPrevEnd == [valid |-> FALSE, mask |-> AllFalse, num_voxels |-> 0]

Init ==
  /\ pc = "open"
  /\ loop_end \in LoopEndPositions
  /\ err = NoError
  /\ \E kinds \in InputVolumes :
       /\ orig_mask = [v \in Voxels |-> KindMask(kinds[v])]
       /\ input_images = [j \in Tissues |-> [v \in Voxels |-> KindTissue(kinds[v], j)]]
  /\ initial_mask = AllFalse
  /\ mask = AllFalse
  /\ summed = ZeroImage
  /\ combined_tissue = [j \in Tissues |-> ZeroImage]
  /\ num_voxels = 0
  /\ max_iter = 0
  /\ bias_field_weights = ZeroWeights
  /\ bias_field_log = ZeroImage
  /\ bias_field_image = ZeroImage
  /\ scale_factors = UninitVector
  /\ previous_scale_factors = UninitVector
  /\ iter = 0
  /\ norm_iter = 0
  /\ norm_converged = FALSE
  /\ summed_log = ZeroImage
  /\ index = 0
  /\ rows = << >>
  /\ outputs = {}
  /\ output_images = [j \in Tissues |-> ZeroImage]
  /\ tags = UninitVector
  /\ independent = FALSE
  /\ solved = UninitVector
  /\ loop_factors = UninitVector
  /\ n_passes = 0
  /\ n_bias_fits = 0
  /\ n_reject = 0
  /\ prev_end = NoPrevEnd

\* An Exception leaves run(): its local objects are destroyed, nothing is
\* created on disk afterwards.  The history variables keep what happened.
Unwind ==
  /\ initial_mask' = AllFalse
  /\ mask' = AllFalse
  /\ summed' = ZeroImage
  /\ combined_tissue' = [j \in Tissues |-> ZeroImage]
  /\ num_voxels' = 0
  /\ max_iter' = 0
  /\ bias_field_weights' = ZeroWeights
  /\ bias_field_log' = ZeroImage
  /\ bias_field_image' = ZeroImage
  /\ scale_factors' = UninitVector
  /\ previous_scale_factors' = UninitVector
  /\ iter' = 0
  /\ norm_iter' = 0
  /\ norm_converged' = FALSE
  /\ summed_log' = ZeroImage
  /\ index' = 0
  /\ rows' = << >>
  /\ prev_end' = NoPrevEnd
  /\ UNCHANGED << loop_end, input_images, orig_mask, outputs, output_images,
                  tags, independent, loop_factors, n_passes, n_bias_fits,
                  n_reject >>

Throw(e) == pc' = "error" /\ err' = e /\ Unwind

\* ------------------------------------------------------------ refine_mask
\* a refine_mask that forgets its seed mask; the mask chain of C1 breaks
refine_mask_unseeded(S, M) ==
  [v \in Voxels |-> IsFinite(S[v]) /\ S[v] > 0]

\* lines 103-113
refine_mask(S, M) ==
  [v \in Voxels |-> IsFinite(S[v]) /\ S[v] > 0 /\ M[v]]

\* ------------------------------------------------ run(): before the loops
\* lines 118-145: argument checks, inputs opened, output collisions
Open ==
  /\ pc = "open"
  /\ \E nargs \in ArgCounts, exists \in BOOLEAN :
       IF nargs % 2 # 0 THEN Throw(Error("odd arguments")) /\ UNCHANGED solved
       ELSE IF nargs < 4 THEN Throw(Error("too few tissues")) /\ UNCHANGED solved
       ELSE IF exists THEN Throw(Error("output exists")) /\ UNCHANGED solved
       ELSE /\ pc' = "mask"
            /\ UNCHANGED << loop_end, err, input_images, orig_mask,
                            initial_mask, mask, summed, combined_tissue,
                            num_voxels, max_iter, bias_field_weights,
                            bias_field_log, bias_field_image, scale_factors,
                            previous_scale_factors, iter, norm_iter,
                            norm_converged, summed_log, index, rows, outputs,
                            output_images, tags, independent, solved,
                            loop_factors, n_passes, n_bias_fits, n_reject,
                            prev_end >>

\* lines 157-162: summed.value() += input_images[j].value(), tissue by tissue
TissueSum(imgs) ==
  [v \in Voxels |-> FSum([j \in Tissues |-> imgs[j][v]], NTissue)]

\* lines 175-180: the zero-clamped tissue stack
ClampTissue(imgs) ==
  [j \in Tissues |-> [v \in Voxels |-> FMax(imgs[j][v], 0)]]

\* lines 148-189: initial mask, working mask, tissue stack, voxel count
BuildMask ==
  /\ pc = "mask"
  /\ LET s == TissueSum(input_images)
         im == refine_mask(s, orig_mask)
     IN IF Count(im) = 0
          THEN Throw(Error("empty mask")) /\ UNCHANGED solved
          ELSE /\ summed' = s
               /\ initial_mask' = im
               /\ mask' = im
               /\ combined_tissue' = ClampTissue(input_images)
               /\ num_voxels' = Count(im)
               /\ pc' = "params"
               /\ UNCHANGED << loop_end, err, input_images, orig_mask,
                               max_iter, bias_field_weights, bias_field_log,
                               bias_field_image, scale_factors,
                               previous_scale_factors, iter, norm_iter,
                               norm_converged, summed_log, index, rows,
                               outputs, output_images, tags, independent,
                               solved, loop_factors, n_passes, n_bias_fits,
                               n_reject, prev_end >>

\* lines 193-217: -value, -maxiter, unit bias field, uninitialised factors
Params ==
  /\ pc = "params"
  /\ \E value \in NormValues, mi \in MaxIterValues :
       IF value <= 0
         THEN Throw(Error("non-positive value")) /\ UNCHANGED solved
         ELSE /\ pc' = "outer"
              /\ max_iter' = mi
              /\ bias_field_image' = [v \in Voxels |-> Unit]
              /\ bias_field_log' = ZeroImage
              /\ iter' = 1
              /\ UNCHANGED << loop_end, err, input_images, orig_mask,
                              initial_mask, mask, summed, combined_tissue,
                              num_voxels, bias_field_weights, scale_factors,
                              previous_scale_factors, norm_iter,
                              norm_converged, summed_log, index, rows,
                              outputs, output_images, tags, independent,
                              solved, loop_factors, n_passes, n_bias_fits,
                              n_reject, prev_end >>

\* an outer loop guard that admits iter = max_iter; C4 breaks
OuterContinuesInclusive(it, mi) == it <= mi

\* ------------------------------------------------- run(): the outer loop
\* line 220: while (iter < max_iter)
OuterContinues(it, mi) == it < mi

\* line 229: while (!norm_converged && norm_iter < max_iter)
InnerContinues(conv, ni, mi) == ~conv /\ ni < mi

\* line 220, with lines 226-227 when the body is entered
OuterHead ==
  /\ pc = "outer"
  /\ IF OuterContinues(iter, max_iter)
       THEN /\ pc' = "inner"
            /\ norm_iter' = 1
            /\ norm_converged' = FALSE
            /\ n_passes' = n_passes + 1
            /\ n_reject' = 0
            /\ prev_end' = NoPrevEnd
            /\ UNCHANGED loop_factors
       ELSE /\ pc' = "compose"
            /\ loop_factors' = scale_factors
            /\ UNCHANGED << norm_iter, norm_converged, n_passes, n_reject, prev_end >>
  /\ UNCHANGED << loop_end, err, input_images, orig_mask, initial_mask, mask, summed,
                  combined_tissue, num_voxels, max_iter, bias_field_weights,
                  bias_field_log, bias_field_image, scale_factors,
                  previous_scale_factors, iter, summed_log, index, rows,
                  outputs, output_images, tags, independent, solved,
                  n_bias_fits >>

\* line 229.  Entering the body, the history keeps the working mask and
\* voxel count the previous inner iteration of this pass ended with.
InnerHead ==
  /\ pc = "inner"
  /\ IF InnerContinues(norm_converged, norm_iter, max_iter)
       THEN /\ pc' = "solve"
            /\ prev_end' = [valid |-> norm_iter > 1, mask |-> mask,
                            num_voxels |-> num_voxels]
       ELSE /\ pc' = "biasfit"
            /\ UNCHANGED prev_end
  /\ UNCHANGED << loop_end, err, input_images, orig_mask, initial_mask, mask,
                  summed, combined_tissue, num_voxels, max_iter,
                  bias_field_weights, bias_field_log, bias_field_image,
                  scale_factors, previous_scale_factors, iter, norm_iter,
                  norm_converged, summed_log, index, rows, outputs,
                  output_images, tags, independent, solved, loop_factors,
                  n_passes, n_bias_fits, n_reject >>

\* lines 237-247 and 328-342: the fill pass over the working mask, in voxel
\* order; each masked voxel takes row `index`, then ++index
RECURSIVE FillRows(_, _)
FillRows(m, n) ==
  IF n = 0 THEN << >>
  ELSE IF m[n] THEN Append(FillRows(m, n - 1), n)
  ELSE FillRows(m, n - 1)

\* line 243: one row of the design matrix
DesignRow(v) ==
  [j \in Tissues |-> FDiv(combined_tissue[j][v], bias_field_image[v])]

\* a positivity check that lets a zero factor through; C2 breaks
StrictlyNegative(x) == x # NaN /\ x < 0

\* line 254: scale_factors(j) <= 0.0
NonPositive(x) == x # NaN /\ x <= 0

\* lines 253-257: the first tissue the check throws for
FirstNonPositive(c) ==
  CHOOSE j \in Tissues :
    NonPositive(c[j]) /\ \A k \in Tissues : k < j => ~NonPositive(c[k])

\* lines 252-258: log_sum
LogSum(c) == FSum([j \in Tissues |-> FLog(c[j])], NTissue)

\* line 260: scale_factors /= exp (log_sum / n_tissue_types)
Renormalise(c) ==
  LET d == FExp(FDivInt(LogSum(c), NTissue))
  IN [j \in Tissues |-> FDiv(c[j], d)]

\* lines 264-265: |previous - current| / previous, per tissue
RelChange(p, c) ==
  [j \in Tissues |-> FDiv(FAbs(FSub(p[j], c[j])), p[j])]

\* 0.001, line 267
ConvergenceThreshold == Unit \div 1000

\* line 267: diff.mean() < 0.001
MeanBelow(d, thr) == FLess(FSum(d, NTissue), NTissue * thr)

\* a convergence test that also runs in the first outer pass; C7 breaks
ConvergedAnyPass(it, p, c) ==
  MeanBelow(RelChange(p, c), ConvergenceThreshold)

\* lines 263-269
Converged(it, p, c) ==
  it > 1 /\ MeanBelow(RelChange(p, c), ConvergenceThreshold)

\* lines 234-269: design matrix, solve, positivity check, renormalisation,
\* convergence test; a converged iteration skips to lines 314-316
Solve ==
  /\ pc = "solve"
  /\ \E sol \in SolveResults :
       /\ solved' = sol
       /\ IF \E j \in Tissues : NonPositive(sol[j])
            THEN Throw([kind |-> "non-positive scale factor",
                        tissue |-> FirstNonPositive(sol),
                        value |-> sol[FirstNonPositive(sol)]])
            ELSE /\ rows' = FillRows(mask, NVox)
                 /\ index' = Len(rows')
                 /\ scale_factors' = Renormalise(sol)
                 /\ norm_converged' =
                      Converged(iter, previous_scale_factors, scale_factors')
                 /\ IF norm_converged'
                      THEN /\ previous_scale_factors' = scale_factors'
                           /\ norm_iter' = norm_iter + 1
                           /\ pc' = "inner"
                      ELSE /\ pc' = "sumlog"
                           /\ UNCHANGED << previous_scale_factors, norm_iter >>
                 /\ UNCHANGED << loop_end, err, input_images, orig_mask,
                                 initial_mask, mask, summed, combined_tissue,
                                 num_voxels, max_iter, bias_field_weights,
                                 bias_field_log, bias_field_image, iter,
                                 summed_log, outputs, output_images, tags,
                                 independent, loop_factors, n_passes,
                                 n_bias_fits, n_reject, prev_end >>

\* lines 274-282: for each tissue j, every voxel accumulates
\* c_j * tissue_j / bias; then, the Loop over the voxels having ended, one
\* std::log is applied at the position the image was left at
RECURSIVE SummedLog(_, _, _)
SummedLog(c, j, cur) ==
  IF j = 0 THEN ZeroImage
  ELSE LET s == SummedLog(c, j - 1, cur)
           a == [v \in Voxels |->
                   FAdd(s[v], FDiv(FMul(c[j], combined_tissue[j][v]),
                                   bias_field_image[v]))]
       IN IF cur \in Voxels THEN [a EXCEPT ![cur] = FLog(a[cur])] ELSE a

\* lines 271-284: summed_log, then refine_mask seeded from the initial mask
SumLogRefine ==
  /\ pc = "sumlog"
  /\ summed_log' = SummedLog(scale_factors, NTissue, loop_end)
  /\ mask' = refine_mask(summed_log', initial_mask)
  /\ pc' = "reject"
  /\ UNCHANGED << loop_end, err, input_images, orig_mask, initial_mask, summed,
                  combined_tissue, num_voxels, max_iter, bias_field_weights,
                  bias_field_log, bias_field_image, scale_factors,
                  previous_scale_factors, iter, norm_iter, norm_converged,
                  index, rows, outputs, output_images, tags, independent,
                  solved, loop_factors, n_passes, n_bias_fits, n_reject,
                  prev_end >>

\* std::sort, ascending
RECURSIVE Insert(_, _)
Insert(s, x) ==
  IF s = << >> THEN << x >>
  ELSE IF x <= Head(s) THEN << x >> \o s
  ELSE << Head(s) >> \o Insert(Tail(s), x)

RECURSIVE Sort(_)
Sort(s) == IF s = << >> THEN << >> ELSE Insert(Sort(Tail(s)), Head(s))

\* lines 295-296: std::round ((float)num_voxels * q), q = pct/100; halves
\* round away from zero
RoundQuartile(n, pct) == (n * pct + 50) \div 100

\* 1.6, lines 297-298
OutlierFactor == (16 * Unit) \div 10

\* lines 297-298: the fences
UpperThreshold(q1, q3) == FAdd(q3, FMul(OutlierFactor, FSub(q3, q1)))

LowerThreshold(q1, q3) == FSub(q1, FMul(OutlierFactor, FSub(q3, q1)))

\* line 303
IsOutlier(x, lower, upper) == FLess(x, lower) \/ FLess(upper, x)

\* a rejection that sets every voxel that is no outlier; C5 breaks
RejectIgnoringMask(m, out) == [v \in Voxels |-> v \notin out]

\* lines 301-308: mask.value() = 0 at every outlier
RejectMask(m, out) == [v \in Voxels |-> m[v] /\ v \notin out]

\* a rejection that forgets the decrement of line 305; C6 breaks
VoxelsBeforeRejection(n, rejected) == n

\* lines 292 and 305: num_voxels = size of the collected values, then one
\* decrement per rejected voxel
VoxelsAfterRejection(n, rejected) == n - rejected

\* lines 286-316: outlier rejection, then the end of the inner iteration.
\* A quartile index at or past the end of the vector reads memory no one
\* wrote: any value, or the run dies.  summed_log goes out of scope at
\* line 312.
Reject ==
  /\ pc = "reject"
  /\ LET vox == FillRows(mask, NVox)
         n == Len(vox)
         sorted == Sort([i \in 1..n |-> summed_log[vox[i]]])
         i1 == RoundQuartile(n, 25)
         i3 == RoundQuartile(n, 75)
     IN \/ /\ \E g1 \in (IF i1 < n THEN {sorted[i1 + 1]} ELSE GarbageValues),
                 g3 \in (IF i3 < n THEN {sorted[i3 + 1]} ELSE GarbageValues) :
                LET upper == UpperThreshold(g1, g3)
                    lower == LowerThreshold(g1, g3)
                    out == {v \in Voxels :
                              mask[v] /\ IsOutlier(summed_log[v], lower, upper)}
                IN /\ mask' = RejectMask(mask, out)
                   /\ num_voxels' = VoxelsAfterRejection(n, Cardinality(out))
           /\ n_reject' = n_reject + 1
           /\ summed_log' = ZeroImage
           /\ previous_scale_factors' = scale_factors
           /\ norm_iter' = norm_iter + 1
           /\ pc' = "inner"
           /\ UNCHANGED << loop_end, err, input_images, orig_mask,
                           initial_mask, summed, combined_tissue, max_iter,
                           bias_field_weights, bias_field_log,
                           bias_field_image, scale_factors, iter,
                           norm_converged, index, rows, outputs,
                           output_images, tags, independent, solved,
                           loop_factors, n_passes, n_bias_fits, prev_end >>
        \/ /\ i1 >= n \/ i3 >= n
           /\ pc' = "crashed"
           /\ Unwind
           /\ UNCHANGED << err, solved >>

\* ------------------------------------------------------ the bias field
\* lines 75-101
basis_function(pos) ==
  LET x == pos[1]
      y == pos[2]
      z == pos[3]
  IN << 1, x, y, z, x * x, y * y, z * z, x * y, x * z, y * z,
        x * x * x, y * y * y, z * z * z, x * x * y, x * x * z,
        y * y * x, y * y * z, z * z * x, z * z * y, x * y * z >>

\* lines 331-332 and 348-349: the grid is one row of voxels along x and
\* voxel2scanner the identity
ScannerPos(v) == << v - 1, 0, 0 >>

\* line 350: basis_function (pos) . bias_field_weights
RECURSIVE Dot(_, _, _)
Dot(b, w, k) == IF k = 0 THEN 0 ELSE Dot(b, w, k - 1) + b[k] * w[k]

\* lines 347-351
BiasFieldLog(w) ==
  [v \in Voxels |-> Dot(basis_function(ScannerPos(v)), w, n_basis_vecs)]

\* lines 354-355
BiasFieldImage(bl) == [v \in Voxels |-> FExp(bl[v])]

\* lines 323-358: fill of the basis matrix and of y over the working mask,
\* solve, bias field in both domains, iter++
BiasFit ==
  /\ pc = "biasfit"
  /\ rows' = FillRows(mask, NVox)
  /\ index' = Len(rows')
  /\ \E w \in BiasWeightChoices : bias_field_weights' = w
  /\ bias_field_log' = BiasFieldLog(bias_field_weights')
  /\ bias_field_image' = BiasFieldImage(bias_field_log')
  /\ iter' = iter + 1
  /\ n_bias_fits' = n_bias_fits + 1
  /\ pc' = "outer"
  /\ UNCHANGED << loop_end, err, input_images, orig_mask, initial_mask, mask,
                  summed, combined_tissue, num_voxels, max_iter,
                  scale_factors, previous_scale_factors, norm_iter,
                  norm_converged, summed_log, outputs, output_images, tags,
                  independent, solved, loop_factors, n_passes, n_reject,
                  prev_end >>

\* ------------------------------------------------- the output compositor
\* lines 378-382: exp (mean (log (scale_factors)))
GeometricMean(c) == FExp(FDivInt(FSum([j \in Tissues |-> FLog(c[j])], NTissue), NTissue))

\* a compositor that never takes the geometric mean; C3 breaks
KeepFactors(indep, c) == c

\* lines 376-384
ComposeFactors(indep, c) ==
  IF indep THEN c ELSE [j \in Tissues |-> GeometricMean(c)]

\* lines 400-401
OutputSample(c, x, b) == FMax(FDiv(FMul(c, x), b), 0)

\* lines 361-403: optional bias and check images, final factors, outputs.
\* A factor no solve has assigned is read as whatever the memory holds.
Compose ==
  /\ pc = "compose"
  /\ \E opt \in OutputOptionChoices,
        read \in (IF scale_factors = UninitVector
                    THEN [Tissues -> GarbageValues] ELSE {scale_factors}) :
          /\ independent' = opt.independent
          /\ scale_factors' = ComposeFactors(opt.independent, read)
          /\ outputs' = {"tissue"} \cup (IF opt.bias THEN {"bias"} ELSE {})
                                   \cup (IF opt.check THEN {"check"} ELSE {})
  /\ tags' = scale_factors'
  /\ output_images' =
       [j \in Tissues |-> [v \in Voxels |->
          OutputSample(scale_factors'[j], input_images[j][v], bias_field_image[v])]]
  /\ pc' = "done"
  /\ UNCHANGED << loop_end, err, input_images, orig_mask, initial_mask, mask,
                  summed, combined_tissue, num_voxels, max_iter,
                  bias_field_weights, bias_field_log, bias_field_image,
                  previous_scale_factors, iter, norm_iter, norm_converged,
                  summed_log, index, rows, solved, loop_factors, n_passes,
                  n_bias_fits, n_reject, prev_end >>

\* ------------------------------------------------------ the specification
Next ==
  \/ Open
  \/ BuildMask
  \/ Params
  \/ OuterHead
  \/ InnerHead
  \/ Solve
  \/ SumLogRefine
  \/ Reject
  \/ BiasFit
  \/ Compose

Spec == Init /\ [][Next]_vars

\* ------------------------------------------------------------- the claims
\* C1: at every point of run(), every voxel of the working mask is in the
\* initial mask and every voxel of the initial mask is in the input mask.
C1_MaskChain ==
  \A v \in Voxels :
    /\ mask[v] => initial_mask[v]
    /\ initial_mask[v] => orig_mask[v]

\* C1 witness: in a second outer pass, after outlier rejection, the three
\* masks are nested strictly and the working mask is not empty.
C1_Witness ==
  /\ pc = "inner"
  /\ iter >= 2
  /\ n_reject >= 1
  /\ \E v \in Voxels : mask[v]
  /\ \E v \in Voxels : initial_mask[v] /\ ~mask[v]
  /\ \E v \in Voxels : orig_mask[v] /\ ~initial_mask[v]

\* the last solve returned a non-positive factor for some tissue
SolveFailed ==
  solved # UninitVector /\ \E j \in Tissues : solved[j] <= 0

\* C2: once a solve has returned a factor <= 0 the run is in its error
\* state, the error names the first such tissue and its unclamped value,
\* no output image exists, and no statement of run() executes after an
\* error (so no further solve, rejection, bias fit or output).
C2_AbortOnNonPositive ==
  [][ /\ pc # "error"
      /\ SolveFailed' =>
           /\ pc' = "error"
           /\ err'.kind = "non-positive scale factor"
           /\ err'.tissue \in Tissues
           /\ solved'[err'.tissue] <= 0
           /\ \A k \in Tissues : k < err'.tissue => solved'[k] > 0
           /\ err'.value = solved'[err'.tissue]
           /\ outputs' = {}
           /\ n_passes' = n_passes
           /\ n_bias_fits' = n_bias_fits
           /\ n_reject' = n_reject ]_vars

\* C2 witness: the solve fails with a zero factor in a third inner solve
\* at least: after one bias fit and one outlier rejection of the pass.
C2_Witness ==
  /\ pc = "error"
  /\ SolveFailed
  /\ err.value = 0
  /\ n_bias_fits >= 1
  /\ n_reject >= 1

\* exp (mean (log c_j)) of a factor vector
C3_ExpMeanLog(c) ==
  FExp(FDivInt(FSum([j \in Tissues |-> FLog(c[j])], NTissue), NTissue))

\* the factors the scale-factor solver left: the last solve, renormalised
C3_SolverFactors == Renormalise(solved)

\* the factor the compositor must apply to tissue j
C3_Expected(j) ==
  IF independent THEN C3_SolverFactors[j]
  ELSE C3_ExpMeanLog(C3_SolverFactors)

\* C3: when the compositor has run after at least one solve, the factor
\* in every tag and in every output sample is the geometric mean of the
\* solver's factors (independent unset) or the solver's factor of that
\* tissue (independent set).
C3_CompositorMode ==
  (pc = "done" /\ solved # UninitVector) =>
    \A j \in Tissues :
      /\ tags[j] = C3_Expected(j)
      /\ \A v \in Voxels :
           output_images[j][v] =
             FMax(FDiv(FMul(C3_Expected(j), input_images[j][v]),
                       bias_field_image[v]), 0)

\* C3 witness: joint mode, reached with solver factors that differ between
\* the tissues and from their geometric mean.
C3_Witness ==
  /\ pc = "done"
  /\ solved # UninitVector
  /\ ~independent
  /\ \E j \in Tissues, k \in Tissues : loop_factors[j] # loop_factors[k]
  /\ \A j \in Tissues : tags[j] # loop_factors[j]

\* how far run() has got: grows with every statement block executed
C4_Progress ==
  LET perPass == 4 * MaxIterBound + 6
  IN CASE pc = "open" -> 0
       [] pc = "mask" -> 1
       [] pc = "params" -> 2
       [] pc = "outer" -> 3 + iter * perPass
       [] pc = "inner" -> 3 + iter * perPass + 1 + 4 * (norm_iter - 1)
       [] pc = "solve" -> 3 + iter * perPass + 2 + 4 * (norm_iter - 1)
       [] pc = "sumlog" -> 3 + iter * perPass + 3 + 4 * (norm_iter - 1)
       [] pc = "reject" -> 3 + iter * perPass + 4 + 4 * (norm_iter - 1)
       [] pc = "biasfit" -> 3 + iter * perPass + 4 * MaxIterBound + 5
       [] pc = "compose" -> 3 + (MaxIterBound + 2) * perPass
       [] OTHER -> 4 + (MaxIterBound + 2) * perPass

C5_ShrinksAcrossIterations ==
  (pc = "inner" /\ prev_end.valid) =>
    /\ \A v \in Voxels : mask[v] => prev_end.mask[v]
    /\ Count(mask) <= Count(prev_end.mask)
    /\ num_voxels <= prev_end.num_voxels

\* C5, amended: within one inner iteration outlier rejection only removes
\* voxels from the mask refine_mask has just rebuilt from the initial
\* mask, so the iteration ends with a mask inside that one and inside the
\* initial mask, and with num_voxels no larger than either count; a voxel
\* rejected by an earlier iteration may be back.
C5_RejectionOnlyRemoves ==
  [][ (pc = "reject" /\ pc' = "inner") =>
        /\ \A v \in Voxels : mask'[v] => mask[v]
        /\ \A v \in Voxels : mask[v] => initial_mask[v]
        /\ Count(mask') <= Count(mask)
        /\ num_voxels' <= Count(mask)
        /\ Count(mask) <= Count(initial_mask) ]_vars

\* C5 witness: a second inner iteration of a pass has ended, its rejection
\* removed a voxel of the initial mask, and a voxel the first iteration
\* had rejected is in the working mask again.
C5_Witness ==
  /\ pc = "inner"
  /\ prev_end.valid
  /\ n_reject >= 2
  /\ \E v \in Voxels : initial_mask[v] /\ ~mask[v]
  /\ \E v \in Voxels : mask[v] /\ ~prev_end.mask[v]

\* the fill pass has just run over the working mask as it now is
C6_JustFilled ==
  \/ pc = "sumlog"
  \/ pc = "inner" /\ norm_converged
  \/ pc = "outer" /\ n_bias_fits >= 1

\* C6: where a design or basis matrix is allocated, num_voxels is the
\* number of voxels of the working mask, and the fill pass that follows
\* gives each masked voxel one row of its own among rows 0..num_voxels-1
\* and stops with index = num_voxels.
C6_RowsMatchMask ==
  /\ pc \in {"solve", "biasfit"} => num_voxels = Count(mask)
  /\ C6_JustFilled =>
       /\ index = num_voxels
       /\ Len(rows) = num_voxels
       /\ \A a \in 1..Len(rows), b \in 1..Len(rows) :
            rows[a] = rows[b] => a = b
       /\ {rows[a] : a \in 1..Len(rows)} = {v \in Voxels : mask[v]}

\* C6 witness: a design matrix was filled after an outlier rejection that
\* removed a voxel and left some.
C6_Witness ==
  /\ pc = "sumlog"
  /\ n_reject >= 1
  /\ num_voxels >= 1
  /\ num_voxels < Count(initial_mask)
  /\ index = num_voxels

\* mean over the tissues of |p_j - c_j| / p_j is below 0.001
C7_SmallChange(p, c) ==
  LET d == [j \in Tissues |-> FDiv(FAbs(FSub(p[j], c[j])), p[j])]
  IN FLess(FSum(d, NTissue), NTissue * (Unit \div 1000))

\* C7: in the first outer pass nothing marks convergence, and the inner
\* loop is left at the cap after a rejection in each of its iterations;
\* in later passes a solve marks convergence exactly when the mean
\* relative change from the factors the preceding inner iteration cached
\* is below 0.001, and a converged iteration leaves the inner loop with
\* the mask untouched and no rejection.
C7_ConvergenceTest ==
  [][ /\ iter' = 1 => ~norm_converged'
      /\ (pc' = "biasfit" /\ iter' = 1) =>
           (norm_iter' = max_iter' /\ n_reject' = max_iter' - 1)
      /\ (pc = "solve" /\ pc' # "error" /\ iter > 1) =>
           /\ previous_scale_factors = scale_factors
           /\ norm_converged' <=>
                C7_SmallChange(previous_scale_factors, scale_factors')
           /\ previous_scale_factors # UninitVector
      /\ (pc = "solve" /\ pc' # "error") =>
           IF norm_converged'
             THEN pc' = "inner" /\ mask' = mask /\ n_reject' = n_reject
             ELSE pc' = "sumlog"
      /\ (pc = "inner" /\ norm_converged) => pc' = "biasfit" ]_vars

\* C7 witness: in a second outer pass the first inner iteration did not
\* converge and rejected, the second converged, before the cap.
C7_Witness ==
  /\ pc = "inner"
  /\ iter = 2
  /\ norm_converged
  /\ n_reject = 1
  /\ norm_iter <= max_iter

\* C8 as stated: the signal handed to refine_mask and to the rejection is,
\* at every voxel, the logarithm of the sum over the tissues of
\* c_j * tissue_j / bias.
C8_LogOfSumEverywhere ==
  pc = "reject" =>
    \A v \in Voxels :
      summed_log[v] =
        FLog(FSum([j \in Tissues |->
                     FDiv(FMul(scale_factors[j], combined_tissue[j][v]),
                          bias_field_image[v])], NTissue))

\* C9 as stated: with n the voxels refine_mask left, both quartile indices
\* are inside the sorted vector of n values.
C9_QuartileIndicesInRange ==
  pc = "reject" =>
    /\ RoundQuartile(Count(mask), 25) \in 0..(Count(mask) - 1)
    /\ RoundQuartile(Count(mask), 75) \in 0..(Count(mask) - 1)

\* C10 as stated: the scale factors the compositor reads were written by a
\* solve that passed the positivity check.
C10_FactorsWrittenBeforeCompose ==
  pc = "compose" =>
    /\ solved # UninitVector
    /\ \A j \in Tissues : scale_factors[j] # Uninit /\ scale_factors[j] > 0

====
